---- MODULE Spec2Model ----
\* A model of the vku wrapper chain (Instance, DebugUtils, Surface,
\* PhysicalDevList, LogicalDev, Swapchain) and of the device selection of
\* main.rs (VulkanState::create, VkCreateInfo).
\*
\* Three specifications share the variables:
\*   Spec     the vku API driven by an arbitrary well-typed client, against a
\*            driver whose creation calls may fail;
\*   SpecApp  the program of main.rs: VulkanState::create, then main returns;
\*   SpecFn   the functions of VkCreateInfo applied to bounded inputs.
EXTENDS Integers, Sequences, FiniteSets, TLC

VARIABLES
    pc,               \* control position of the client / of main.rs
    chain,            \* the owned wrapper value, innermost layer first
    calls,            \* the native calls made so far, in order
    devices,          \* PhysicalDevList::devices, what the driver enumerated
    cursor,           \* position of the iterator of main.rs:68-72 (0-based)
    create_info,      \* the (dev_idx, create_info) found by main.rs:68-73
    result,           \* what the client / VulkanState::create got back
    win_size,         \* window.inner_size() of main.rs:47
    debug_assertions, \* the build profile: cfg(debug_assertions), overflow checks
    queries,          \* number of PhysicalDevRef queries the client has made
    fn_arg,           \* SpecFn: the function applied and its arguments
    fn_ret            \* SpecFn: what it returned

vars == <<pc, chain, calls, devices, cursor, create_info, result, win_size,
          debug_assertions, queries, fn_arg, fn_ret>>

-----------------------------------------------------------------------------
\* Bounds of the model.

\* u32 is modelled with WordBits bits; u32::MAX is the all-ones word.
WordBits == 5
\* Longest list of queue families a device reports.
MaxFams == 3
\* Longest list of surface formats a device reports.
MaxFmts == 3
\* Longest list of present modes a device reports.
MaxPmods == 3
\* Longest list of enumerated physical devices.
MaxDevs == 2
\* Longest queue family plan the client passes to select.
MaxPlan == 2
\* Most PhysicalDevRef queries the client makes on one catalog.
MaxQueries == 1

U32_MAX == 2^WordBits - 1

SeqsUpTo(S, n) == UNION {[1..k -> S] : k \in 0..n}

SetMin(S) == CHOOSE x \in S : \A y \in S : x <= y

-----------------------------------------------------------------------------
\* Option and Result values.

None == [tag |-> "None"]
Some(v) == [tag |-> "Some", val |-> v]
\* A panic that unwinds out of the function.
Panic == [tag |-> "Panic"]
Ok(v) == [tag |-> "Ok", val |-> v]
Err == [tag |-> "Err"]

IsSome(o) == o.tag = "Some"
IsNone(o) == o.tag = "None"
IsPanic(o) == o.tag = "Panic"
IsOk(r) == r.tag = "Ok"

-----------------------------------------------------------------------------
\* Values of the native API that the selection looks at.

R8G8B8A8_SRGB == "R8G8B8A8_SRGB"
B8G8R8A8_UNORM == "B8G8R8A8_UNORM"
SRGB_NONLINEAR == "SRGB_NONLINEAR"
EXTENDED_SRGB_LINEAR == "EXTENDED_SRGB_LINEAR_EXT"
MAILBOX == "MAILBOX"
FIFO == "FIFO"
IMMEDIATE == "IMMEDIATE"
GRAPHICS == "GRAPHICS"
COMPUTE == "COMPUTE"
DISCRETE_GPU == "DISCRETE_GPU"
INTEGRATED_GPU == "INTEGRATED_GPU"
VIRTUAL_GPU == "VIRTUAL_GPU"
CPU == "CPU"
VK_KHR_swapchain == "VK_KHR_swapchain"
VK_KHR_maintenance1 == "VK_KHR_maintenance1"

Extent2D(w, h) == [width |-> w, height |-> h]
SurfaceFormatKHR(f, c) == [format |-> f, color_space |-> c]

\* VkCreateInfo::default(): every field zero.
VkCreateInfo_default ==
    [graphics_queue_id |-> 0,
     present_queue_id  |-> 0,
     swapchain_fmt     |-> SurfaceFormatKHR("UNDEFINED", SRGB_NONLINEAR),
     swapchain_pmode   |-> IMMEDIATE,
     swapchain_extent  |-> Extent2D(0, 0),
     swapchain_imgs    |-> 0]

-----------------------------------------------------------------------------
\* VkCreateInfo::get_swapchain_properties (main.rs:146-203).

\* A selection that always takes the first reported format.
swapchain_format_first_only(fmts) ==
    IF fmts = <<>> THEN None ELSE Some(fmts[1])

\* main.rs:157-161: the first SRGB RGBA8 / non-linear SRGB entry, else the
\* first entry, else None.
swapchain_format(fmts) ==
    LET hits == {i \in 1..Len(fmts) :
                    /\ fmts[i].format = R8G8B8A8_SRGB
                    /\ fmts[i].color_space = SRGB_NONLINEAR}
    IN  IF hits # {} THEN Some(fmts[SetMin(hits)])
        ELSE IF fmts # <<>> THEN Some(fmts[1])
        ELSE None

\* A selection that takes the first reported present mode.
swapchain_pmode_first(pmods) ==
    IF pmods = <<>> THEN None ELSE Some(pmods[1])

\* main.rs:163-169: None on an empty list, MAILBOX if listed, else FIFO.
swapchain_pmode(pmods) ==
    IF pmods = <<>> THEN None
    ELSE IF \E i \in 1..Len(pmods) : pmods[i] = MAILBOX THEN Some(MAILBOX)
    ELSE Some(FIFO)

\* Ord::clamp asserts min <= max and panics otherwise, in every build.
clamp(v, lo, hi) ==
    IF lo > hi THEN Panic
    ELSE IF v < lo THEN Some(lo)
    ELSE IF v > hi THEN Some(hi)
    ELSE Some(v)

\* A derivation that takes either dimension at u32::MAX for the sentinel.
swapchain_extent_either_max(caps, win) ==
    IF caps.current_extent.height = U32_MAX \/ caps.current_extent.width = U32_MAX
    THEN LET h == clamp(win.height, caps.min_image_extent.height,
                        caps.max_image_extent.height)
             w == clamp(win.width, caps.min_image_extent.width,
                        caps.max_image_extent.width)
         IN  IF IsPanic(h) \/ IsPanic(w) THEN Panic
             ELSE Some(Extent2D(w.val, h.val))
    ELSE Some(caps.current_extent)

\* main.rs:171-189: the window size clamped when current_extent is the
\* (u32::MAX, u32::MAX) sentinel, current_extent otherwise.
swapchain_extent(caps, win) ==
    IF caps.current_extent.height = U32_MAX /\ caps.current_extent.width = U32_MAX
    THEN LET h == clamp(win.height, caps.min_image_extent.height,
                        caps.max_image_extent.height)
             w == clamp(win.width, caps.min_image_extent.width,
                        caps.max_image_extent.width)
         IN  IF IsPanic(h) \/ IsPanic(w) THEN Panic
             ELSE Some(Extent2D(w.val, h.val))
    ELSE Some(caps.current_extent)

\* u32 addition: with overflow checks (the debug profile) an overflow panics,
\* without them (the release profile) it wraps.
add_u32(a, b) ==
    IF a + b > U32_MAX
    THEN IF debug_assertions THEN Panic ELSE Some((a + b) % (U32_MAX + 1))
    ELSE Some(a + b)

\* main.rs:191-194: both arms of the match evaluate min_image_count + 1.
swapchain_imgs(caps) ==
    LET next == add_u32(caps.min_image_count, 1)
    IN  IF IsPanic(next) THEN Panic
        ELSE IF caps.max_image_count = 0 THEN next
        ELSE IF caps.max_image_count < next.val THEN Some(caps.max_image_count)
        ELSE next

get_swapchain_properties(self, dev, win) ==
    IF ~IsOk(dev.surface_capabilities) THEN None
    ELSE IF ~IsOk(dev.surface_formats) THEN None
    ELSE IF ~IsOk(dev.surface_present_modes) THEN None
    ELSE
    LET caps   == dev.surface_capabilities.val
        format == swapchain_format(dev.surface_formats.val)
        pmode  == swapchain_pmode(dev.surface_present_modes.val)
        extent == swapchain_extent(caps, win)
        imgs   == swapchain_imgs(caps)
    IN  IF IsNone(format) THEN None
        ELSE IF IsNone(pmode) THEN None
        ELSE IF IsPanic(extent) THEN Panic
        ELSE IF IsPanic(imgs) THEN Panic
        ELSE Some([self EXCEPT !.swapchain_fmt    = format.val,
                               !.swapchain_pmode  = pmode.val,
                               !.swapchain_extent = extent.val,
                               !.swapchain_imgs   = imgs.val])

-----------------------------------------------------------------------------
\* VkCreateInfo::get_queue_family_indices (main.rs:207-227).
\* A device's queue_families is a list of [queue_flags, surface_support]:
\* the flags of the family and the driver's answer to supports_surface for it.

\* supports_surface(fam).unwrap_or(false)
supports_or_false(fam) == IsOk(fam.surface_support) /\ fam.surface_support.val

\* A position counted from one.
graphics_position_from_one(fams) ==
    LET hits == {i \in 1..Len(fams) : GRAPHICS \in fams[i].queue_flags}
    IN  IF hits = {} THEN None ELSE Some(SetMin(hits))

\* main.rs:212-215: position of the first family with the GRAPHICS flag.
graphics_position(fams) ==
    LET hits == {i \in 1..Len(fams) : GRAPHICS \in fams[i].queue_flags}
    IN  IF hits = {} THEN None ELSE Some(SetMin(hits) - 1)

\* A search that stops at the first family whose query fails.
present_position_stop_at_err(fams) ==
    LET hits == {i \in 1..Len(fams) :
                    /\ supports_or_false(fams[i])
                    /\ \A j \in 1..(i - 1) : IsOk(fams[j].surface_support)}
    IN  IF hits = {} THEN None ELSE Some(SetMin(hits) - 1)

\* A search that only looks at the families from the graphics family on.
present_position_from_graphics(fams) ==
    LET g == graphics_position(fams)
        hits == {i \in 1..Len(fams) :
                    /\ supports_or_false(fams[i])
                    /\ IsSome(g) => i - 1 >= g.val}
    IN  IF hits = {} THEN None ELSE Some(SetMin(hits) - 1)

\* main.rs:216-221: the first index whose supports_surface is Ok(true).
present_position(fams) ==
    LET hits == {i \in 1..Len(fams) : supports_or_false(fams[i])}
    IN  IF hits = {} THEN None ELSE Some(SetMin(hits) - 1)

get_queue_family_indices(self, dev) ==
    LET g == graphics_position(dev.queue_families)
        p == present_position(dev.queue_families)
    IN  IF IsNone(g) THEN None
        ELSE IF IsNone(p) THEN None
        ELSE Some([self EXCEPT !.graphics_queue_id = g.val,
                               !.present_queue_id  = p.val])

-----------------------------------------------------------------------------
\* VkCreateInfo::queue_family_creation_infos (main.rs:230-243).

\* main.rs:239: priorities: &[1.0]
PRIORITY_ONE == 1

QueueFamilyInfo(n) == [index |-> n, priorities |-> <<PRIORITY_ONE>>]

\* A push that does not look for the index in the vector.
push_always(vec, n) == Append(vec, QueueFamilyInfo(n))

\* main.rs:233-241: the body of the for_each closure.
push_unique(vec, n) ==
    IF \E i \in 1..Len(vec) : vec[i].index = n THEN vec
    ELSE Append(vec, QueueFamilyInfo(n))

queue_family_creation_infos(self) ==
    push_unique(push_unique(<<>>, self.graphics_queue_id), self.present_queue_id)

-----------------------------------------------------------------------------
\* VkCreateInfo::new (main.rs:105-140).

Contains(list, x) == \E i \in 1..Len(list) : list[i] = x

\* A check that accepts any device type.
suitable_type_any(dev) == dev.features.tessellation_shader # 0

\* main.rs:122-128
suitable_type(dev) ==
    /\ dev.features.tessellation_shader # 0
    /\ dev.properties.device_type \in {DISCRETE_GPU, INTEGRATED_GPU}

\* main.rs:130
has_extensions(exts, dev_exts) ==
    \A i \in 1..Len(dev_exts) : Contains(exts, dev_exts[i])

new(dev, dev_exts, win) ==
    IF ~IsOk(dev.extension_properties) THEN None
    ELSE IF ~suitable_type(dev) THEN None
    ELSE IF ~has_extensions(dev.extension_properties.val, dev_exts) THEN None
    ELSE
    LET info == IF Contains(dev_exts, VK_KHR_swapchain)
                THEN get_swapchain_properties(VkCreateInfo_default, dev, win)
                ELSE Some(VkCreateInfo_default)
    IN  IF IsSome(info) THEN get_queue_family_indices(info.val, dev) ELSE info

-----------------------------------------------------------------------------
\* What a physical device answers to the PhysicalDevRef queries
\* (vku/src/physical_dev.rs:122-201).

SurfaceCapabilitiesKHR(cur, minE, maxE, minc, maxc) ==
    [current_extent   |-> cur,
     min_image_extent |-> minE,
     max_image_extent |-> maxE,
     min_image_count  |-> minc,
     max_image_count  |-> maxc]

QueueFamily(flags, support) == [queue_flags |-> flags, surface_support |-> support]

PhysicalDevice(tess, type, exts, fams, caps, fmts, pmods) ==
    [features               |-> [tessellation_shader |-> tess],
     properties             |-> [device_type |-> type],
     extension_properties   |-> exts,
     queue_families         |-> fams,
     surface_capabilities   |-> caps,
     surface_formats        |-> fmts,
     surface_present_modes  |-> pmods]

\* A device that passes every check of VkCreateInfo::new.
GoodCaps == SurfaceCapabilitiesKHR(Extent2D(4, 3), Extent2D(1, 1), Extent2D(6, 6), 2, 3)

GoodDev ==
    PhysicalDevice(1, DISCRETE_GPU, Ok(<<VK_KHR_swapchain>>),
                   <<QueueFamily({GRAPHICS, COMPUTE}, Ok(TRUE))>>,
                   Ok(GoodCaps),
                   Ok(<<SurfaceFormatKHR(B8G8R8A8_UNORM, SRGB_NONLINEAR)>>),
                   Ok(<<FIFO>>))

-----------------------------------------------------------------------------
\* SpecFn: the functions of VkCreateInfo applied to bounded inputs.

FmtSet == {SurfaceFormatKHR(f, c) : f \in {R8G8B8A8_SRGB, B8G8R8A8_UNORM},
                                     c \in {SRGB_NONLINEAR, EXTENDED_SRGB_LINEAR}}
FmtLists == SeqsUpTo(FmtSet, MaxFmts)
PmodLists == SeqsUpTo({MAILBOX, FIFO, IMMEDIATE}, MaxPmods)
FamSet == {QueueFamily(f, s) : f \in {{GRAPHICS, COMPUTE}, {COMPUTE}},
                               s \in {Ok(TRUE), Ok(FALSE), Err}}
FamLists == SeqsUpTo(FamSet, MaxFams)
ExtLists == SeqsUpTo({VK_KHR_swapchain, VK_KHR_maintenance1}, 2)

CurExtents == {Extent2D(U32_MAX, U32_MAX), Extent2D(U32_MAX, 3),
               Extent2D(3, U32_MAX), Extent2D(3, 2), Extent2D(0, 0)}
MinExtents == {Extent2D(0, 0), Extent2D(1, 1), Extent2D(2, 4)}
MaxExtents == {Extent2D(3, 3), Extent2D(4, 5)}
WinSizes == {Extent2D(w, h) : w \in {0, 2, 9}, h \in {0, 2, 9}}
MinCounts == {0, 1, 2, U32_MAX - 1, U32_MAX}
MaxCounts == {0, 1, 2, 3, U32_MAX}

FnArg(f, self, dev, dev_exts, win) ==
    [fn |-> f, self |-> self, dev |-> dev, dev_exts |-> dev_exts, win_size |-> win]

NoArg == FnArg("none", VkCreateInfo_default, GoodDev, <<>>, Extent2D(0, 0))

SwapchainDevs ==
    {[GoodDev EXCEPT !.surface_formats = Ok(f), !.surface_present_modes = Ok(p)] :
        f \in FmtLists, p \in {<<FIFO>>, <<>>}}
    \cup {[GoodDev EXCEPT !.surface_present_modes = Ok(p), !.surface_formats = Ok(f)] :
        p \in PmodLists, f \in {GoodDev.surface_formats.val, <<>>}}
    \cup {[GoodDev EXCEPT !.surface_capabilities =
              Ok(SurfaceCapabilitiesKHR(c, lo, hi, 2, 3))] :
        c \in CurExtents, lo \in MinExtents, hi \in MaxExtents}
    \cup {[GoodDev EXCEPT !.surface_capabilities =
              Ok(SurfaceCapabilitiesKHR(c, Extent2D(1, 1), Extent2D(6, 6), lo, hi))] :
        c \in {Extent2D(4, 3), Extent2D(U32_MAX, U32_MAX)},
        lo \in MinCounts, hi \in MaxCounts}
    \cup {[GoodDev EXCEPT !.surface_capabilities = Err],
          [GoodDev EXCEPT !.surface_formats = Err],
          [GoodDev EXCEPT !.surface_present_modes = Err]}

SwapchainInputs ==
    {FnArg("get_swapchain_properties", VkCreateInfo_default, d, <<VK_KHR_swapchain>>, w) :
        d \in SwapchainDevs, w \in WinSizes}

QueueFamilyInputs ==
    {FnArg("get_queue_family_indices", VkCreateInfo_default,
           [GoodDev EXCEPT !.queue_families = f], <<VK_KHR_swapchain>>, Extent2D(2, 2)) :
        f \in FamLists}

PlanInputs ==
    {FnArg("queue_family_creation_infos",
           [VkCreateInfo_default EXCEPT !.graphics_queue_id = g, !.present_queue_id = p],
           GoodDev, <<>>, Extent2D(2, 2)) :
        g \in 0..MaxFams, p \in 0..MaxFams}

NewDevs ==
    {[d EXCEPT !.features = [tessellation_shader |-> t],
               !.properties = [device_type |-> ty],
               !.extension_properties = e] :
        d \in {GoodDev, [GoodDev EXCEPT !.queue_families = <<>>],
               [GoodDev EXCEPT !.queue_families = <<QueueFamily({GRAPHICS}, Ok(FALSE))>>],
               [GoodDev EXCEPT !.surface_formats = Ok(<<>>)]},
        t \in {0, 1},
        ty \in {DISCRETE_GPU, INTEGRATED_GPU, VIRTUAL_GPU, CPU},
        e \in {Err} \cup {Ok(l) : l \in ExtLists}}

NewInputs ==
    {FnArg("new", VkCreateInfo_default, d, x, Extent2D(2, 2)) :
        d \in NewDevs, x \in ExtLists}

\* vk_debug_callback (debug_utils.rs:8-31).

VERBOSE == "VERBOSE"
INFO == "INFO"
WARNING == "WARNING"
ERROR == "ERROR"
GENERAL == "GENERAL"
VALIDATION == "VALIDATION"
PERFORMANCE == "PERFORMANCE"
\* vk::FALSE
VK_FALSE == 0
\* A null p_callback_data.
NULL == [null |-> TRUE]

\* A non-null p_callback_data: its p_message, valid UTF-8 or not.
CallbackData(utf8) == [null |-> FALSE, p_message |-> [text |-> "message", utf8 |-> utf8]]

\* A filter that looks for the flags inside the masks.
callback_filter_contains(message_severity, message_type) ==
    /\ VERBOSE \in message_severity \/ INFO \in message_severity
    /\ GENERAL \in message_type

\* debug_utils.rs:15-17: the flag masks are compared with ==.
callback_filter(message_severity, message_type) ==
    /\ message_severity = {VERBOSE} \/ message_severity = {INFO}
    /\ message_type = {GENERAL}

\* debug_utils.rs:22: eprintln!("[ {:?} ] [ {:?} ]", severity, type)
Header(message_severity, message_type) ==
    [line |-> "header", severity |-> message_severity, type |-> message_type]

\* debug_utils.rs:24-28: the message with Display when it is UTF-8, with Debug
\* otherwise.
MessageLine(msg) ==
    [line |-> IF msg.utf8 THEN "display" ELSE "debug", text |-> msg.text]

\* What the callback wrote to stderr and what it returned.
vk_debug_callback(message_severity, message_type, p_callback_data) ==
    IF callback_filter(message_severity, message_type)
    THEN [written |-> <<>>, ret |-> VK_FALSE]
    ELSE [written |-> <<Header(message_severity, message_type)>>
                      \o (IF p_callback_data.null THEN <<>>
                          ELSE <<MessageLine(p_callback_data.p_message)>>),
          ret |-> VK_FALSE]

Severities == (SUBSET {VERBOSE, INFO, WARNING, ERROR}) \ {{}}
MessageTypes == (SUBSET {GENERAL, VALIDATION, PERFORMANCE}) \ {{}}

CallbackInputs ==
    {[fn |-> "vk_debug_callback", message_severity |-> s, message_type |-> t,
      p_callback_data |-> d] :
        s \in Severities, t \in MessageTypes,
        d \in {NULL, CallbackData(TRUE), CallbackData(FALSE)}}

FnInputs ==
    SwapchainInputs \cup QueueFamilyInputs \cup PlanInputs \cup NewInputs
        \cup CallbackInputs

InitFn ==
    /\ pc = "fn_call"
    /\ fn_arg \in FnInputs
    /\ fn_ret = None
    /\ debug_assertions \in BOOLEAN
    /\ chain = <<>>
    /\ calls = <<>>
    /\ devices = <<>>
    /\ cursor = 0
    /\ create_info = None
    /\ result = "none"
    /\ win_size = Extent2D(0, 0)
    /\ queries = 0

FnReturn(v) ==
    /\ fn_ret' = v
    /\ pc' = "fn_ret"
    /\ UNCHANGED <<chain, calls, devices, cursor, create_info, result, win_size,
                   debug_assertions, queries, fn_arg>>

Apply_new ==
    /\ pc = "fn_call"
    /\ fn_arg.fn = "new"
    /\ FnReturn(new(fn_arg.dev, fn_arg.dev_exts, fn_arg.win_size))

Apply_get_swapchain_properties ==
    /\ pc = "fn_call"
    /\ fn_arg.fn = "get_swapchain_properties"
    /\ FnReturn(get_swapchain_properties(fn_arg.self, fn_arg.dev, fn_arg.win_size))

Apply_get_queue_family_indices ==
    /\ pc = "fn_call"
    /\ fn_arg.fn = "get_queue_family_indices"
    /\ FnReturn(get_queue_family_indices(fn_arg.self, fn_arg.dev))

Apply_queue_family_creation_infos ==
    /\ pc = "fn_call"
    /\ fn_arg.fn = "queue_family_creation_infos"
    /\ FnReturn(Some(queue_family_creation_infos(fn_arg.self)))

Apply_vk_debug_callback ==
    /\ pc = "fn_call"
    /\ fn_arg.fn = "vk_debug_callback"
    /\ FnReturn(Some(vk_debug_callback(fn_arg.message_severity, fn_arg.message_type,
                                       fn_arg.p_callback_data)))

NextFn ==
    \/ Apply_vk_debug_callback
    \/ Apply_new
    \/ Apply_get_swapchain_properties
    \/ Apply_get_queue_family_indices
    \/ Apply_queue_family_creation_infos

SpecFn == InitFn /\ [][NextFn]_vars

-----------------------------------------------------------------------------
\* The wrapper chain. The owned value is the list of its layers, innermost
\* first: <<"Instance", "DebugUtils", "Surface", "LogicalDev">> is
\* LogicalDev<Surface<DebugUtils<Instance>>>.

Top(c) == c[Len(c)]
Inner(c) == SubSeq(c, 1, Len(c) - 1)

RECURSIVE InstanceHolder(_)
\* instance.rs:89-97 for Instance; derive_instance_holder! for DebugUtils
\* (debug_utils.rs:88), Surface (surface.rs:54), LogicalDev (logical_dev.rs:39).
InstanceHolder(c) ==
    /\ c # <<>>
    /\ \/ Top(c) = "Instance"
       \/ Top(c) \in {"DebugUtils", "Surface", "LogicalDev"} /\ InstanceHolder(Inner(c))

RECURSIVE SurfaceHolder(_)
\* surface.rs:81-89 for Surface; derive_surface_holder! for DebugUtils
\* (debug_utils.rs:89) and LogicalDev (logical_dev.rs:40).
SurfaceHolder(c) ==
    /\ c # <<>>
    /\ \/ Top(c) = "Surface" /\ InstanceHolder(Inner(c))
       \/ Top(c) \in {"DebugUtils", "LogicalDev"} /\ SurfaceHolder(Inner(c))

\* logical_dev.rs:60-64: LogicalDev alone implements DeviceHolder.
DeviceHolder(c) == c # <<>> /\ Top(c) = "LogicalDev" /\ InstanceHolder(Inner(c))

\* A native call: its name, how it ended ("ok", "err", "true", "false"), the
\* device and family indices it was given, and the plan for create_device.
NativeCall(name, res, arg, plan) ==
    [call |-> name, res |-> res, arg |-> arg, plan |-> plan]

ResOf(ok) == IF ok THEN "ok" ELSE "err"

\* What Drop::drop of each wrapper calls.
Instance_drop == <<"destroy_instance">>
DebugUtils_drop_nothing == <<>>
DebugUtils_drop == <<"destroy_debug_utils_messenger">>
Surface_drop == <<"destroy_surface">>
LogicalDev_drop == <<"destroy_device">>
Swapchain_drop_nothing == <<>>
Swapchain_drop == <<"destroy_swapchain">>

\* Dropping the value runs Drop::drop of the outermost wrapper and then drops
\* its fields, the wrapped value among them.
DropLayer(layer, destroys) ==
    /\ pc = "dropping"
    /\ chain # <<>>
    /\ Top(chain) = layer
    /\ calls' = calls \o [i \in 1..Len(destroys) |-> NativeCall(destroys[i], "ok", <<>>, <<>>)]
    /\ chain' = Inner(chain)
    /\ pc' = IF Inner(chain) = <<>> THEN "done" ELSE "dropping"
    /\ UNCHANGED <<devices, cursor, create_info, result, win_size,
                   debug_assertions, queries, fn_arg, fn_ret>>

Drop_Swapchain == DropLayer("Swapchain", Swapchain_drop)
Drop_LogicalDev == DropLayer("LogicalDev", LogicalDev_drop)
\* PhysicalDevList has no Drop impl: only its fields are dropped.
Drop_PhysicalDevList == DropLayer("PhysicalDevList", <<>>)
Drop_Surface == DropLayer("Surface", Surface_drop)
Drop_DebugUtils == DropLayer("DebugUtils", DebugUtils_drop)
Drop_Instance == DropLayer("Instance", Instance_drop)

\* A failure that forgets the value it was given instead of dropping it.
Unwind_forget == "done"

\* A failed or panicking call drops the value it was given.
Unwind == IF chain = <<>> THEN "done" ELSE "dropping"

\* The shape of the creation functions: one native call; the given value is
\* wrapped on success and dropped on failure.
Create(at, next, call, arg, plan, wrapped) ==
    /\ pc = at
    /\ \E ok \in BOOLEAN :
        /\ calls' = Append(calls, NativeCall(call, ResOf(ok), arg, plan))
        /\ IF ok
           THEN chain' = wrapped /\ pc' = next /\ result' = "ok"
           ELSE chain' = chain /\ pc' = Unwind /\ result' = "err"
    /\ UNCHANGED <<devices, cursor, create_info, win_size, debug_assertions,
                   queries, fn_arg, fn_ret>>

\* Instance::new (instance.rs:29-57)
Instance_new(at, next) ==
    /\ chain = <<>>
    /\ Create(at, next, "create_instance", <<>>, <<>>, <<"Instance">>)

\* DebugUtils::new (debug_utils.rs:65-76)
DebugUtils_new(at, next) ==
    /\ InstanceHolder(chain)
    /\ Create(at, next, "create_debug_utils_messenger", <<>>, <<>>,
              Append(chain, "DebugUtils"))

\* Surface::new (surface.rs:35-45)
Surface_new(at, next) ==
    /\ InstanceHolder(chain)
    /\ Create(at, next, "create_surface", <<>>, <<>>, Append(chain, "Surface"))

\* PhysicalDevList::list (physical_dev.rs:48-51)
PhysicalDevList_list(at, next, lists) ==
    /\ pc = at
    /\ InstanceHolder(chain)
    /\ \E ok \in BOOLEAN :
        /\ calls' = Append(calls, NativeCall("enumerate_physical_devices", ResOf(ok),
                                             <<>>, <<>>))
        /\ IF ok
           THEN /\ \E l \in lists : devices' = l
                /\ chain' = Append(chain, "PhysicalDevList")
                /\ pc' = next
                /\ result' = "ok"
           ELSE /\ devices' = devices
                /\ chain' = chain
                /\ pc' = Unwind
                /\ result' = "err"
    /\ UNCHANGED <<cursor, create_info, win_size, debug_assertions, queries,
                   fn_arg, fn_ret>>

\* A test that compares neighbouring entries only.
plan_distinct_neighbours(plan) ==
    \A i \in 1..Len(plan) :
        ~(i + 1 <= Len(plan) /\ plan[i + 1].index = plan[i].index)

\* physical_dev.rs:99-102: no entry has its index again in the rest of the plan.
plan_distinct(plan) ==
    \A i \in 1..Len(plan) :
        ~\E j \in (i + 1)..Len(plan) : plan[j].index = plan[i].index

PlanIndices(plan) == [i \in 1..Len(plan) |-> plan[i].index]

\* A select that borrows the catalog and leaves it with the caller.
select_by_ref(c) == c

\* physical_dev.rs:91 and 118: select takes self by value and moves the
\* catalog's instance into the LogicalDev it returns.
select_by_value(c) == Append(Inner(c), "LogicalDev")

\* A lookup that hands out an entry for every index.
devices_get_unchecked(devs, i) == Some(GoodDev)

\* physical_dev.rs:112: self.devices.get(selected_dev) is None for an index
\* outside the list, and unwrap() panics on None in every build.
devices_get(devs, i) == IF i < Len(devs) THEN Some(devs[i + 1]) ELSE None

\* PhysicalDevList::select (physical_dev.rs:90-119)
PhysicalDevList_select(at, next, selected_dev, queue_family_infos) ==
    /\ pc = at
    /\ chain # <<>>
    /\ Top(chain) = "PhysicalDevList"
    /\ IF \/ debug_assertions /\ queue_family_infos = <<>>
          \/ debug_assertions /\ ~plan_distinct(queue_family_infos)
          \/ IsNone(devices_get(devices, selected_dev))
       THEN /\ pc' = Unwind
            /\ result' = "panic"
            /\ UNCHANGED <<chain, calls>>
       ELSE \E ok \in BOOLEAN :
            /\ calls' = Append(calls, NativeCall("create_device", ResOf(ok),
                                                 <<selected_dev>>,
                                                 PlanIndices(queue_family_infos)))
            /\ IF ok
               THEN /\ chain' = select_by_value(chain)
                    /\ pc' = next
                    /\ result' = "ok"
               ELSE /\ chain' = chain
                    /\ pc' = Unwind
                    /\ result' = "err"
    /\ UNCHANGED <<devices, cursor, create_info, win_size, debug_assertions,
                   queries, fn_arg, fn_ret>>

\* Swapchain::new (swapchain.rs:104-131)
Swapchain_new(at, next) ==
    /\ SurfaceHolder(chain)
    /\ DeviceHolder(chain)
    /\ Create(at, next, "create_swapchain", <<>>, <<>>, Append(chain, "Swapchain"))

-----------------------------------------------------------------------------
\* The native queries of PhysicalDevRef (physical_dev.rs:122-201).

InstanceQueries ==
    {"get_physical_device_properties", "get_physical_device_features",
     "get_physical_device_queue_family_properties",
     "enumerate_device_extension_properties"}

SurfaceQueries ==
    {"get_physical_device_surface_support",
     "get_physical_device_surface_capabilities",
     "get_physical_device_surface_formats",
     "get_physical_device_surface_present_modes"}

\* A bound that asks for the instance capability only.
surface_queries_bound_instance(c) == InstanceHolder(c)

\* physical_dev.rs:152: impl<I: super::SurfaceHolder> PhysicalDevRef<'_, I>:
\* the surface queries exist only when the catalog's instance type is a
\* SurfaceHolder, and they pass self.instance.vk_surface().
surface_queries_bound(c) == SurfaceHolder(c)

\* One query on the PhysicalDevRef of device i of the catalog.
PhysicalDevRef_query(at, i, q, res) ==
    /\ pc = at
    /\ chain # <<>>
    /\ Top(chain) = "PhysicalDevList"
    /\ i < Len(devices)
    /\ \/ q \in InstanceQueries
       \/ q \in SurfaceQueries /\ surface_queries_bound(Inner(chain))
    /\ calls' = Append(calls, NativeCall(q, res,
                    IF q = "get_physical_device_surface_support" THEN <<i, 0>> ELSE <<i>>,
                    <<>>))
    /\ queries' = queries + 1
    /\ UNCHANGED <<pc, chain, devices, cursor, create_info, result, win_size,
                   debug_assertions, fn_arg, fn_ret>>

-----------------------------------------------------------------------------
\* The native calls of VkCreateInfo::new on device i, in the order made.

Query(name, r, arg) == NativeCall(name, ResOf(IsOk(r)), arg, <<>>)

\* main.rs:151-155: the three queries, up to the first that fails.
get_swapchain_properties_calls(i, dev) ==
    <<Query("get_physical_device_surface_capabilities", dev.surface_capabilities, <<i>>)>>
    \o (IF IsOk(dev.surface_capabilities)
        THEN <<Query("get_physical_device_surface_formats", dev.surface_formats, <<i>>)>>
             \o (IF IsOk(dev.surface_formats)
                 THEN <<Query("get_physical_device_surface_present_modes",
                              dev.surface_present_modes, <<i>>)>>
                 ELSE <<>>)
        ELSE <<>>)

\* main.rs:211-221: queue_families, then supports_surface for the families in
\* order up to the first that answers true, if a graphics family was found.
get_queue_family_indices_calls(i, dev) ==
    LET fams == dev.queue_families
        p == present_position(fams)
        n == IF IsNone(graphics_position(fams)) THEN 0
             ELSE IF IsSome(p) THEN p.val + 1
             ELSE Len(fams)
    IN  <<NativeCall("get_physical_device_queue_family_properties", "ok", <<i>>, <<>>)>>
        \o [k \in 1..n |->
               NativeCall("get_physical_device_surface_support",
                          IF ~IsOk(fams[k].surface_support) THEN "err"
                          ELSE IF fams[k].surface_support.val THEN "true" ELSE "false",
                          <<i, k - 1>>, <<>>)]

new_calls(i, dev, dev_exts, win) ==
    <<NativeCall("get_physical_device_properties", "ok", <<i>>, <<>>),
      NativeCall("get_physical_device_features", "ok", <<i>>, <<>>),
      Query("enumerate_device_extension_properties", dev.extension_properties, <<i>>)>>
    \o (IF \/ ~IsOk(dev.extension_properties)
           \/ ~suitable_type(dev)
           \/ ~has_extensions(dev.extension_properties.val, dev_exts)
        THEN <<>>
        ELSE IF Contains(dev_exts, VK_KHR_swapchain)
        THEN get_swapchain_properties_calls(i, dev)
             \o (IF IsSome(get_swapchain_properties(VkCreateInfo_default, dev, win))
                 THEN get_queue_family_indices_calls(i, dev)
                 ELSE <<>>)
        ELSE get_queue_family_indices_calls(i, dev))

-----------------------------------------------------------------------------
\* Spec: a client that calls the vku API in any order the types allow and
\* drops the value it holds at any point.

ClientDevLists == SeqsUpTo({GoodDev}, MaxDevs)
ClientPlans == SeqsUpTo({QueueFamilyInfo(n) : n \in 0..1}, MaxPlan)

Init ==
    /\ pc = "client"
    /\ chain = <<>>
    /\ calls = <<>>
    /\ devices = <<>>
    /\ cursor = 0
    /\ create_info = None
    /\ result = "none"
    /\ win_size = Extent2D(0, 0)
    /\ debug_assertions \in BOOLEAN
    /\ queries = 0
    /\ fn_arg = NoArg
    /\ fn_ret = None

Client_Instance_new == calls = <<>> /\ Instance_new("client", "client")

Client_DebugUtils_new ==
    /\ ~Contains(chain, "DebugUtils")
    /\ DebugUtils_new("client", "client")

Client_Surface_new ==
    /\ ~Contains(chain, "Surface")
    /\ Surface_new("client", "client")

Client_list ==
    /\ ~Contains(chain, "LogicalDev")
    /\ PhysicalDevList_list("client", "client", ClientDevLists)

Client_query ==
    /\ queries < MaxQueries
    /\ \E i \in 0..(MaxDevs - 1), q \in InstanceQueries \cup SurfaceQueries,
          res \in {"ok", "err"} :
          /\ q \in {"get_physical_device_properties", "get_physical_device_features",
                    "get_physical_device_queue_family_properties"} => res = "ok"
          /\ PhysicalDevRef_query("client", i, q, res)

Client_select ==
    \E i \in 0..MaxDevs, plan \in ClientPlans :
        PhysicalDevList_select("client", "client", i, plan)

Client_Swapchain_new == Swapchain_new("client", "client")

\* The client lets go of the value.
Client_drop ==
    /\ pc = "client"
    /\ chain # <<>>
    /\ pc' = "dropping"
    /\ UNCHANGED <<chain, calls, devices, cursor, create_info, result, win_size,
                   debug_assertions, queries, fn_arg, fn_ret>>

Drops ==
    \/ Drop_Swapchain
    \/ Drop_LogicalDev
    \/ Drop_PhysicalDevList
    \/ Drop_Surface
    \/ Drop_DebugUtils
    \/ Drop_Instance

Next ==
    \/ Client_Instance_new
    \/ Client_DebugUtils_new
    \/ Client_Surface_new
    \/ Client_list
    \/ Client_query
    \/ Client_select
    \/ Client_Swapchain_new
    \/ Client_drop
    \/ Drops

Spec == Init /\ [][Next]_vars

-----------------------------------------------------------------------------
\* SpecApp: main.rs. main calls VulkanState::create and returns.

\* main.rs:42-45
device_extensions == <<VK_KHR_swapchain>>

\* The devices the driver may enumerate: one that passes every check, and
\* that device with one answer changed.
AppDevices ==
    {GoodDev,
     [GoodDev EXCEPT !.features = [tessellation_shader |-> 0]],
     [GoodDev EXCEPT !.properties = [device_type |-> CPU]],
     [GoodDev EXCEPT !.properties = [device_type |-> INTEGRATED_GPU]],
     [GoodDev EXCEPT !.extension_properties = Err],
     [GoodDev EXCEPT !.extension_properties = Ok(<<VK_KHR_maintenance1>>)],
     [GoodDev EXCEPT !.surface_capabilities = Err],
     [GoodDev EXCEPT !.surface_formats = Err],
     [GoodDev EXCEPT !.surface_present_modes = Err],
     [GoodDev EXCEPT !.surface_formats = Ok(<<>>)],
     [GoodDev EXCEPT !.surface_present_modes = Ok(<<>>)],
     [GoodDev EXCEPT !.surface_capabilities =
         Ok([GoodCaps EXCEPT !.current_extent = Extent2D(U32_MAX, U32_MAX)])],
     [GoodDev EXCEPT !.surface_capabilities =
         Ok([GoodCaps EXCEPT !.current_extent = Extent2D(U32_MAX, U32_MAX),
                             !.min_image_extent = Extent2D(7, 7)])],
     [GoodDev EXCEPT !.surface_capabilities =
         Ok([GoodCaps EXCEPT !.min_image_count = U32_MAX])],
     [GoodDev EXCEPT !.queue_families = <<>>],
     [GoodDev EXCEPT !.queue_families = <<QueueFamily({GRAPHICS}, Ok(FALSE))>>],
     [GoodDev EXCEPT !.queue_families = <<QueueFamily({COMPUTE}, Ok(TRUE))>>],
     [GoodDev EXCEPT !.queue_families = <<QueueFamily({GRAPHICS}, Err)>>],
     [GoodDev EXCEPT !.queue_families = <<QueueFamily({GRAPHICS}, Err),
                                          QueueFamily({COMPUTE}, Ok(TRUE))>>],
     [GoodDev EXCEPT !.queue_families = <<QueueFamily({COMPUTE}, Ok(TRUE)),
                                          QueueFamily({GRAPHICS}, Ok(FALSE))>>]}

AppDevLists == SeqsUpTo(AppDevices, MaxDevs)

InitApp ==
    /\ pc = "main_36"
    /\ chain = <<>>
    /\ calls = <<>>
    /\ devices = <<>>
    /\ cursor = 0
    /\ create_info = None
    /\ result = "none"
    /\ win_size \in {Extent2D(2, 2), Extent2D(9, 9)}
    /\ debug_assertions \in BOOLEAN
    /\ queries = 0
    /\ fn_arg = NoArg
    /\ fn_ret = None

\* main.rs:35-40: vku::surface::extensions(&window).unwrap()
App_extensions ==
    /\ pc = "main_36"
    /\ \E ok \in BOOLEAN :
        IF ok THEN pc' = "main_53" /\ result' = result
        ELSE pc' = "done" /\ result' = "panic"
    /\ UNCHANGED <<chain, calls, devices, cursor, create_info, win_size,
                   debug_assertions, queries, fn_arg, fn_ret>>

\* main.rs:53-60
App_Instance_new == Instance_new("main_53", "main_62")

\* main.rs:62
App_DebugUtils_new == DebugUtils_new("main_62", "main_64")

\* main.rs:64
App_Surface_new == Surface_new("main_64", "main_66")

\* main.rs:66
App_list == PhysicalDevList_list("main_66", "main_68", AppDevLists)

\* An index counted after the filter: the position among the accepted devices.
selected_index_after_filter(i) == 0

\* main.rs:70-71: enumerate() pairs each device with its position in the list
\* before filter_map drops the rejected ones.
selected_index(i) == i

\* main.rs:71: the filter_map closure on the device under the cursor; the
\* iterator stops at the first Some.
App_check_device ==
    /\ pc = "main_68"
    /\ cursor < Len(devices)
    /\ LET dev == devices[cursor + 1]
           r == new(dev, device_extensions, win_size)
       IN  /\ calls' = calls \o new_calls(cursor, dev, device_extensions, win_size)
           /\ IF IsSome(r)
              THEN /\ create_info' = Some([dev_idx |-> selected_index(cursor), info |-> r.val])
                   /\ pc' = "main_75"
                   /\ UNCHANGED <<cursor, result>>
              ELSE IF IsPanic(r)
              THEN /\ pc' = Unwind
                   /\ result' = "panic"
                   /\ UNCHANGED <<cursor, create_info>>
              ELSE /\ cursor' = cursor + 1
                   /\ UNCHANGED <<pc, create_info, result>>
    /\ UNCHANGED <<chain, devices, win_size, debug_assertions, queries, fn_arg, fn_ret>>

\* main.rs:72-73: the iterator is exhausted: ok_or(NoSuitablePhyDev)?
App_no_suitable ==
    /\ pc = "main_68"
    /\ cursor = Len(devices)
    /\ pc' = Unwind
    /\ result' = "NoSuitablePhyDev"
    /\ UNCHANGED <<chain, calls, devices, cursor, create_info, win_size,
                   debug_assertions, queries, fn_arg, fn_ret>>

\* main.rs:75-77
App_select ==
    /\ pc = "main_75"
    /\ PhysicalDevList_select("main_75", "main_259", create_info.val.dev_idx,
                              queue_family_creation_infos(create_info.val.info))

\* main.rs:258-259: main returns and vk_state is dropped.
App_main_return ==
    /\ pc = "main_259"
    /\ pc' = "dropping"
    /\ UNCHANGED <<chain, calls, devices, cursor, create_info, result, win_size,
                   debug_assertions, queries, fn_arg, fn_ret>>

NextApp ==
    \/ App_extensions
    \/ App_Instance_new
    \/ App_DebugUtils_new
    \/ App_Surface_new
    \/ App_list
    \/ App_check_device
    \/ App_no_suitable
    \/ App_select
    \/ App_main_return
    \/ Drops

SpecApp == InitApp /\ [][NextApp]_vars

-----------------------------------------------------------------------------
\* Properties of the wrapper chain, checked under Spec.

Reverse(q) == [i \in 1..Len(q) |-> q[Len(q) + 1 - i]]
IsPrefix(a, b) == Len(a) <= Len(b) /\ SubSeq(b, 1, Len(a)) = a
Names(cs) == [i \in 1..Len(cs) |-> cs[i].call]

CreateCalls == {"create_instance", "create_debug_utils_messenger", "create_surface",
                "create_device", "create_swapchain"}
DestroyCalls == {"destroy_instance", "destroy_debug_utils_messenger", "destroy_surface",
                 "destroy_device", "destroy_swapchain"}

\* The native object a creation or destruction call is about.
ObjectOf(name) ==
    CASE name \in {"create_instance", "destroy_instance"} -> "instance"
      [] name \in {"create_debug_utils_messenger", "destroy_debug_utils_messenger"}
             -> "messenger"
      [] name \in {"create_surface", "destroy_surface"} -> "surface"
      [] name \in {"create_device", "destroy_device"} -> "device"
      [] name \in {"create_swapchain", "destroy_swapchain"} -> "swapchain"

IsCreated(c) == c.call \in CreateCalls /\ c.res = "ok"
IsDestroy(c) == c.call \in DestroyCalls

\* The objects created, in creation order, and destroyed, in destruction order.
Created(cs) ==
    LET sel == SelectSeq(cs, IsCreated) IN [i \in 1..Len(sel) |-> ObjectOf(sel[i].call)]
Destroyed(cs) ==
    LET sel == SelectSeq(cs, IsDestroy) IN [i \in 1..Len(sel) |-> ObjectOf(sel[i].call)]

Count(q, x) == Cardinality({i \in 1..Len(q) : q[i] = x})

\* The native objects a call works on.
Uses(name) ==
    CASE name = "create_instance" -> {}
      [] name \in {"create_debug_utils_messenger", "create_surface", "create_device",
                   "enumerate_physical_devices", "destroy_instance"}
             \cup InstanceQueries -> {"instance"}
      [] name \in SurfaceQueries -> {"instance", "surface"}
      [] name = "create_swapchain" -> {"instance", "surface", "device"}
      [] name = "destroy_debug_utils_messenger" -> {"instance", "messenger"}
      [] name = "destroy_surface" -> {"instance", "surface"}
      [] name = "destroy_device" -> {"device"}
      [] name = "destroy_swapchain" -> {"device", "swapchain"}

\* C1: the teardown calls come in the reverse of the order of creation: for
\* the chain instance, messenger, surface, device, swapchain they are
\* destroy_swapchain, destroy_device, destroy_surface,
\* destroy_debug_utils_messenger, destroy_instance, and likewise for every
\* chain dropped at an earlier stage.
C1_ReverseTeardown ==
    /\ IsPrefix(Destroyed(calls), Reverse(Created(calls)))
    /\ pc = "done" => Destroyed(calls) = Reverse(Created(calls))
    /\ (/\ pc = "done"
        /\ Created(calls) = <<"instance", "messenger", "surface", "device", "swapchain">>)
           => Names(SelectSeq(calls, IsDestroy)) =
                  <<"destroy_swapchain", "destroy_device", "destroy_surface",
                    "destroy_debug_utils_messenger", "destroy_instance">>

\* The full chain was built and dropped.
C1_Witness ==
    /\ pc = "done"
    /\ Created(calls) = <<"instance", "messenger", "surface", "device", "swapchain">>
    /\ Names(SelectSeq(calls, IsDestroy)) =
           <<"destroy_swapchain", "destroy_device", "destroy_surface",
             "destroy_debug_utils_messenger", "destroy_instance">>

\* C2: every native object created is destroyed exactly once, destroy_instance
\* comes after the destruction of everything created from the instance, and
\* no native call works on an object after its destruction.
C2_DestroyedOnce ==
    /\ \A o \in {"instance", "messenger", "surface", "device", "swapchain"} :
           /\ Count(Destroyed(calls), o) <= Count(Created(calls), o)
           /\ Count(Created(calls), o) <= 1
           /\ pc = "done" => Count(Destroyed(calls), o) = Count(Created(calls), o)
    /\ \A i \in 1..Len(calls) :
           calls[i].call = "destroy_instance" =>
               \A j \in 1..(i - 1) :
                   IsCreated(calls[j]) /\ calls[j].call # "create_instance" =>
                       \E k \in (j + 1)..(i - 1) :
                           /\ IsDestroy(calls[k])
                           /\ ObjectOf(calls[k].call) = ObjectOf(calls[j].call)
    /\ \A i \in 1..Len(calls) :
           IsDestroy(calls[i]) =>
               \A j \in (i + 1)..Len(calls) :
                   ObjectOf(calls[i].call) \notin Uses(calls[j].call)

\* A chain with a messenger and a surface was torn down after a failed
\* create_device.
C2_Witness ==
    /\ pc = "done"
    /\ result = "err"
    /\ Created(calls) = <<"instance", "surface", "messenger">>
    /\ \E i \in 1..Len(calls) : calls[i].call = "create_device" /\ calls[i].res = "err"
    /\ Count(Destroyed(calls), "messenger") = 1
    /\ Count(Destroyed(calls), "surface") = 1
    /\ Count(Destroyed(calls), "instance") = 1

-----------------------------------------------------------------------------
\* Properties of VulkanState::create, checked under SpecApp.

\* The positions of the devices that VkCreateInfo::new accepts.
Accepted ==
    {i \in 0..(Len(devices) - 1) :
        new(devices[i + 1], device_extensions, win_size).tag = "Some"}

\* No check of a device up to position n panics.
NoPanicUpTo(n) ==
    \A i \in 0..n :
        i < Len(devices) => new(devices[i + 1], device_extensions, win_size).tag # "Panic"

Enumerated ==
    \E k \in 1..Len(calls) :
        calls[k].call = "enumerate_physical_devices" /\ calls[k].res = "ok"

-----------------------------------------------------------------------------
\* Properties of the functions of VkCreateInfo, checked under SpecFn.

Returned(f) == pc = "fn_ret" /\ fn_arg.fn = f

\* The 0-based indices of the families with the GRAPHICS flag.
GraphicsFamilies(dev) ==
    {i - 1 : i \in {j \in 1..Len(dev.queue_families) :
                        GRAPHICS \in dev.queue_families[j].queue_flags}}

\* The 0-based indices of the families for which supports_surface returns true.
PresentFamilies(dev) ==
    {i - 1 : i \in {j \in 1..Len(dev.queue_families) :
                        /\ dev.queue_families[j].surface_support.tag = "Ok"
                        /\ dev.queue_families[j].surface_support.val}}

\* The three surface queries of get_swapchain_properties succeeded.
SurfaceQueriesOk(dev) ==
    /\ dev.surface_capabilities.tag = "Ok"
    /\ dev.surface_formats.tag = "Ok"
    /\ dev.surface_present_modes.tag = "Ok"

IsSentinel(e) == e.width = U32_MAX /\ e.height = U32_MAX

\* Inputs on which get_swapchain_properties has a value to return: the lists
\* are not empty, the extent range is not empty where the window is clamped
\* into it, and min_image_count + 1 is a u32.
SwapchainInputsRegular(dev) ==
    /\ SurfaceQueriesOk(dev)
    /\ dev.surface_formats.val # <<>>
    /\ dev.surface_present_modes.val # <<>>
    /\ LET caps == dev.surface_capabilities.val
       IN  /\ caps.min_image_count < U32_MAX
           /\ IsSentinel(caps.current_extent) =>
                /\ caps.min_image_extent.width <= caps.max_image_extent.width
                /\ caps.min_image_extent.height <= caps.max_image_extent.height

\* C4: VkCreateInfo::new returns None for a device without the tessellation
\* shader feature, for a device that is neither a discrete nor an integrated
\* GPU, and for a device that does not report some required extension; an
\* empty list of required extensions rejects no device.
C4_NewRejectsUnsuitable ==
    Returned("new") =>
        LET dev == fn_arg.dev
            req == fn_arg.dev_exts
        IN  /\ dev.features.tessellation_shader = 0 => fn_ret.tag = "None"
            /\ dev.properties.device_type \notin {DISCRETE_GPU, INTEGRATED_GPU}
                   => fn_ret.tag = "None"
            /\ (/\ dev.extension_properties.tag = "Ok"
                /\ \E i \in 1..Len(req) :
                       \A j \in 1..Len(dev.extension_properties.val) :
                           dev.extension_properties.val[j] # req[i])
                   => fn_ret.tag = "None"
            /\ (/\ req = <<>>
                /\ dev.extension_properties.tag = "Ok"
                /\ dev.features.tessellation_shader # 0
                /\ dev.properties.device_type \in {DISCRETE_GPU, INTEGRATED_GPU}
                /\ GraphicsFamilies(dev) # {}
                /\ PresentFamilies(dev) # {})
                   => fn_ret.tag = "Some"

\* A discrete GPU with tessellation is rejected for the one missing extension.
C4_Witness ==
    /\ Returned("new")
    /\ fn_arg.dev.features.tessellation_shader = 1
    /\ fn_arg.dev.properties.device_type = DISCRETE_GPU
    /\ fn_arg.dev.extension_properties.tag = "Ok"
    /\ fn_arg.dev.extension_properties.val = <<VK_KHR_maintenance1>>
    /\ fn_arg.dev_exts = <<VK_KHR_swapchain>>
    /\ fn_ret.tag = "None"

\* C5: get_queue_family_indices returns the smallest index of a family with
\* the GRAPHICS flag and, independently, the smallest index of a family for
\* which supports_surface returns true; it returns None when either kind of
\* family is missing, and VkCreateInfo::new then accepts no such device.
C5_QueueFamilyIndices ==
    /\ Returned("get_queue_family_indices") =>
           IF GraphicsFamilies(fn_arg.dev) = {} \/ PresentFamilies(fn_arg.dev) = {}
           THEN fn_ret.tag = "None"
           ELSE /\ fn_ret.tag = "Some"
                /\ fn_ret.val.graphics_queue_id = SetMin(GraphicsFamilies(fn_arg.dev))
                /\ fn_ret.val.present_queue_id = SetMin(PresentFamilies(fn_arg.dev))
    /\ (/\ Returned("new")
        /\ (GraphicsFamilies(fn_arg.dev) = {} \/ PresentFamilies(fn_arg.dev) = {}))
           => fn_ret.tag # "Some"

\* The present family found lies before the graphics family.
C5_Witness ==
    /\ Returned("get_queue_family_indices")
    /\ fn_ret.tag = "Some"
    /\ fn_ret.val.graphics_queue_id = 1
    /\ fn_ret.val.present_queue_id = 0

\* C6: queue_family_creation_infos returns one entry, for g, when the graphics
\* index g equals the present index p, and the two entries g then p otherwise;
\* the priorities of every entry are the single value 1.0.
C6_PlanDeduplicated ==
    Returned("queue_family_creation_infos") =>
        LET g == fn_arg.self.graphics_queue_id
            p == fn_arg.self.present_queue_id
            plan == fn_ret.val
        IN  /\ g = p => Len(plan) = 1 /\ plan[1].index = g
            /\ g # p => Len(plan) = 2 /\ plan[1].index = g /\ plan[2].index = p
            /\ \A i \in 1..Len(plan) : plan[i].priorities = <<1>>

\* Both orders of two distinct indices, and an equal pair, were planned.
C6_Witness ==
    /\ Returned("queue_family_creation_infos")
    /\ fn_arg.self.graphics_queue_id = 3
    /\ fn_arg.self.present_queue_id = 1
    /\ Len(fn_ret.val) = 2

\* C7: get_swapchain_properties chooses the first entry that is R8G8B8A8_SRGB
\* with SRGB_NONLINEAR wherever it stands in the list, the first element when
\* no entry has both, and returns None on an empty list.
C7_FormatSelection ==
    (Returned("get_swapchain_properties") /\ SurfaceQueriesOk(fn_arg.dev)) =>
        LET fmts == fn_arg.dev.surface_formats.val
            hit == \E i \in 1..Len(fmts) :
                       /\ fmts[i].format = R8G8B8A8_SRGB
                       /\ fmts[i].color_space = SRGB_NONLINEAR
        IN  /\ fmts = <<>> => fn_ret.tag = "None"
            /\ SwapchainInputsRegular(fn_arg.dev) => fn_ret.tag = "Some"
            /\ fn_ret.tag = "Some" =>
                   IF hit
                   THEN fn_ret.val.swapchain_fmt =
                            SurfaceFormatKHR(R8G8B8A8_SRGB, SRGB_NONLINEAR)
                   ELSE fn_ret.val.swapchain_fmt = fmts[1]

\* The preferred pair is chosen from the last place of a list whose earlier
\* entries match the format alone and the color space alone.
C7_Witness ==
    /\ Returned("get_swapchain_properties")
    /\ fn_arg.dev.surface_formats.tag = "Ok"
    /\ fn_arg.dev.surface_formats.val =
           <<SurfaceFormatKHR(R8G8B8A8_SRGB, EXTENDED_SRGB_LINEAR),
             SurfaceFormatKHR(B8G8R8A8_UNORM, SRGB_NONLINEAR),
             SurfaceFormatKHR(R8G8B8A8_SRGB, SRGB_NONLINEAR)>>
    /\ fn_ret.tag = "Some"
    /\ fn_ret.val.swapchain_fmt = SurfaceFormatKHR(R8G8B8A8_SRGB, SRGB_NONLINEAR)

\* C8: get_swapchain_properties chooses MAILBOX when the present mode list
\* contains it, FIFO when the list is not empty and does not, and returns
\* None on an empty list.
C8_PresentModeSelection ==
    (Returned("get_swapchain_properties") /\ SurfaceQueriesOk(fn_arg.dev)) =>
        LET pmods == fn_arg.dev.surface_present_modes.val
        IN  /\ pmods = <<>> => fn_ret.tag = "None"
            /\ SwapchainInputsRegular(fn_arg.dev) => fn_ret.tag = "Some"
            /\ fn_ret.tag = "Some" =>
                   IF \E i \in 1..Len(pmods) : pmods[i] = MAILBOX
                   THEN fn_ret.val.swapchain_pmode = MAILBOX
                   ELSE fn_ret.val.swapchain_pmode = FIFO

\* MAILBOX is chosen from the second place of the list.
C8_Witness ==
    /\ Returned("get_swapchain_properties")
    /\ fn_arg.dev.surface_present_modes.tag = "Ok"
    /\ fn_arg.dev.surface_present_modes.val = <<IMMEDIATE, MAILBOX>>
    /\ fn_ret.tag = "Some"
    /\ fn_ret.val.swapchain_pmode = MAILBOX

\* C9: when current_extent is (u32::MAX, u32::MAX) each dimension of the
\* extent is the window dimension clamped into [min_image_extent,
\* max_image_extent]; any other current_extent, one with a single dimension
\* at u32::MAX included, is the extent whatever the window size.
C9_ExtentDerivation ==
    (Returned("get_swapchain_properties") /\ SurfaceQueriesOk(fn_arg.dev)) =>
        LET caps == fn_arg.dev.surface_capabilities.val
            win  == fn_arg.win_size
            Into(v, lo, hi) == IF v < lo THEN lo ELSE IF v > hi THEN hi ELSE v
        IN  /\ SwapchainInputsRegular(fn_arg.dev) => fn_ret.tag = "Some"
            /\ fn_ret.tag = "Some" =>
                   IF IsSentinel(caps.current_extent)
                   THEN /\ fn_ret.val.swapchain_extent.width =
                               Into(win.width, caps.min_image_extent.width,
                                    caps.max_image_extent.width)
                        /\ fn_ret.val.swapchain_extent.height =
                               Into(win.height, caps.min_image_extent.height,
                                    caps.max_image_extent.height)
                   ELSE fn_ret.val.swapchain_extent = caps.current_extent

\* A window wider than the maximum and lower than the minimum is clamped.
C9_Witness ==
    /\ Returned("get_swapchain_properties")
    /\ fn_arg.dev.surface_capabilities.tag = "Ok"
    /\ IsSentinel(fn_arg.dev.surface_capabilities.val.current_extent)
    /\ fn_arg.dev.surface_capabilities.val.min_image_extent = Extent2D(1, 1)
    /\ fn_arg.dev.surface_capabilities.val.max_image_extent = Extent2D(3, 3)
    /\ fn_arg.win_size = Extent2D(9, 0)
    /\ fn_ret.tag = "Some"
    /\ fn_ret.val.swapchain_extent = Extent2D(3, 1)

\* C10: for all u32 min_image_count and max_image_count the image count is
\* min_image_count + 1 when max_image_count = 0, and the smaller of
\* max_image_count and min_image_count + 1 otherwise.
C10_ImageCount ==
    (Returned("get_swapchain_properties") /\ fn_ret.tag = "Some") =>
        LET caps == fn_arg.dev.surface_capabilities.val
            next == caps.min_image_count + 1
        IN  fn_ret.val.swapchain_imgs =
                IF caps.max_image_count = 0 THEN next
                ELSE IF caps.max_image_count < next THEN caps.max_image_count
                ELSE next

-----------------------------------------------------------------------------
\* C11: whenever get_swapchain_properties returns Some, the chosen
\* format/color-space pair is an element of the reported surface-format list
\* and the chosen present mode is an element of the reported present-mode
\* list.
C11_ChosenAreReported ==
    (Returned("get_swapchain_properties") /\ fn_ret.tag = "Some") =>
        LET fmts  == fn_arg.dev.surface_formats.val
            pmods == fn_arg.dev.surface_present_modes.val
        IN  /\ \E i \in 1..Len(fmts) : fmts[i] = fn_ret.val.swapchain_fmt
            /\ \E i \in 1..Len(pmods) : pmods[i] = fn_ret.val.swapchain_pmode

-----------------------------------------------------------------------------
\* The native queries VkCreateInfo::new makes that can fail with a code
\* (main.rs:114-116, 151-155, 216-221).
FallibleSelectionQueries ==
    {"enumerate_device_extension_properties",
     "get_physical_device_surface_capabilities",
     "get_physical_device_surface_formats",
     "get_physical_device_surface_present_modes",
     "get_physical_device_surface_support"}

\* C12: whenever a native query made during device selection fails with a
\* code, VulkanState::create returns an error carrying that code: it ends with
\* a native error and does not go on to create a device.
C12_NativeFailuresPropagate ==
    (/\ pc \in {"main_259", "dropping", "done"}
     /\ \E k \in 1..Len(calls) :
            calls[k].call \in FallibleSelectionQueries /\ calls[k].res = "err") =>
        /\ result = "err"
        /\ \A k \in 1..Len(calls) : calls[k].call # "create_device"

-----------------------------------------------------------------------------
\* C13: select is one-shot: at most one create_device call is issued for a
\* catalog returned by PhysicalDevList::list, it is for an entry of that
\* catalog at the index given, and once select has been called no further
\* PhysicalDevRef query or select is made on that catalog.
Enumerations(a, b) ==
    {m \in a..b : /\ calls[m].call = "enumerate_physical_devices"
                  /\ calls[m].res = "ok"}

C13_SelectOneShot ==
    \A k \in 1..Len(calls) :
        calls[k].call = "create_device" =>
            /\ calls[k].arg[1] \in 0..(Len(devices) - 1)
            /\ \A l \in (k + 1)..Len(calls) :
                   calls[l].call \in {"create_device"} \cup InstanceQueries
                                         \cup SurfaceQueries
                       => Enumerations(k + 1, l - 1) # {}
            /\ calls[k].res = "ok" => ~Contains(chain, "PhysicalDevList")
            /\ calls[k].res = "err" => pc \in {"dropping", "done"}

\* A device has been created from a catalog that had been queried, and the
\* caller holds the LogicalDev.
C13_Witness ==
    /\ pc = "client"
    /\ chain # <<>>
    /\ Top(chain) = "LogicalDev"
    /\ \E k \in 1..Len(calls) :
           /\ calls[k].call = "create_device"
           /\ calls[k].res = "ok"
           /\ \E j \in 1..(k - 1) : calls[j].call \in InstanceQueries

-----------------------------------------------------------------------------
\* C14: select validates the queue-family plan: native create_device is never
\* called with an empty plan or with a plan in which two entries carry the
\* same family index, and the duplicate test select applies holds exactly
\* when the indices of the plan are pairwise distinct.
C14_SelectValidatesPlan ==
    /\ \A k \in 1..Len(calls) :
           calls[k].call = "create_device" =>
               /\ calls[k].plan # <<>>
               /\ \A i, j \in 1..Len(calls[k].plan) :
                      i # j => calls[k].plan[i] # calls[k].plan[j]
    /\ \A plan \in ClientPlans :
           plan_distinct(plan) <=>
               \A i, j \in 1..Len(plan) : i # j => plan[i].index # plan[j].index

-----------------------------------------------------------------------------
\* C15: select called with selected_dev greater than or equal to the number
\* of enumerated devices panics without calling create_device, and the chain
\* held by the catalog is still torn down exactly once: every select step
\* with such an index leaves the call trace as it is and starts the drop of
\* the catalog, and a run that ended in a panic made no create_device call
\* and destroyed each object it created once, in reverse order.
C15_OutOfRangePanics ==
    /\ [][\A i \in 0..MaxDevs, plan \in ClientPlans :
              (i >= Len(devices) /\ PhysicalDevList_select("client", "client", i, plan))
                  => /\ result' = "panic"
                     /\ calls' = calls
                     /\ chain' = chain
                     /\ pc' = "dropping"]_vars
    /\ [](result = "panic" =>
              /\ \A k \in 1..Len(calls) : calls[k].call # "create_device"
              /\ IsPrefix(Destroyed(calls), Reverse(Created(calls)))
              /\ pc = "done" => Destroyed(calls) = Reverse(Created(calls)))

\* Without debug assertions the only panic of select is the one on the index:
\* it happened on a catalog over a surface, and the chain is gone.
C15_Witness ==
    /\ ~debug_assertions
    /\ result = "panic"
    /\ pc = "done"
    /\ Created(calls) = <<"instance", "messenger", "surface">>
    /\ Destroyed(calls) = <<"surface", "messenger", "instance">>
    /\ \E k \in 1..Len(calls) : calls[k].call = "enumerate_physical_devices"

-----------------------------------------------------------------------------
\* logical_dev.rs:7-12: the fields of LogicalDev are the instance and the
\* device; it has no field for queue handles, and get_queue (27-30), the one
\* place that calls get_device_queue, is private and has no caller.
LogicalDev_queues == {}

\* C16: after a logical device has been created from a plan, the LogicalDev
\* holds a retrieved queue handle for every (family index, index within the
\* family) pair implied by the entries of the plan and the lengths of their
\* priority lists.
C16_QueueHandlesHeld ==
    \A k \in 1..Len(calls) :
        (calls[k].call = "create_device" /\ calls[k].res = "ok") =>
            \A i \in 1..Len(calls[k].plan) :
                \A q \in 0..(Len(QueueFamilyInfo(calls[k].plan[i]).priorities) - 1) :
                    /\ <<calls[k].plan[i], q>> \in LogicalDev_queues
                    /\ \E l \in 1..Len(calls) :
                           /\ calls[l].call = "get_device_queue"
                           /\ calls[l].arg = <<calls[k].plan[i], q>>

-----------------------------------------------------------------------------
\* C17: capability propagation: every wrapper that owns, at any depth, a
\* value with the instance, surface or device capability exposes that
\* capability itself: the value the client holds is an InstanceHolder always,
\* a SurfaceHolder iff a Surface occurs in it, and a DeviceHolder iff a
\* LogicalDev occurs in it.
C17_CapabilityPropagation ==
    (pc = "client" /\ chain # <<>>) =>
        /\ InstanceHolder(chain)
        /\ SurfaceHolder(chain) <=> Contains(chain, "Surface")
        /\ DeviceHolder(chain) <=> Contains(chain, "LogicalDev")

-----------------------------------------------------------------------------
\* C18: the surface-dependent queries (supports_surface,
\* surface_capabilities, surface_formats, surface_present_modes) are issued
\* only for a chain that contains a Surface, and on the surface of that
\* chain: every such native call comes after the successful create_surface
\* of the chain and before any destroy_surface.
C18_SurfaceQueriesNeedSurface ==
    \A k \in 1..Len(calls) :
        calls[k].call \in SurfaceQueries =>
            /\ \E j \in 1..(k - 1) :
                   calls[j].call = "create_surface" /\ calls[j].res = "ok"
            /\ \A j \in 1..(k - 1) : calls[j].call # "destroy_surface"
            /\ pc = "client" => Contains(chain, "Surface")

\* A surface query was made through a catalog over DebugUtils over a Surface.
C18_Witness ==
    /\ pc = "client"
    /\ chain = <<"Instance", "Surface", "DebugUtils", "PhysicalDevList">>
    /\ \E k \in 1..Len(calls) : calls[k].call = "get_physical_device_surface_formats"

-----------------------------------------------------------------------------
\* C19: the debug callback writes nothing exactly when the severity is
\* VERBOSE or INFO and the message type is GENERAL; for every other
\* severity/type combination, a type that combines GENERAL with VALIDATION or
\* PERFORMANCE included, it writes the severity/type header, followed by the
\* message when the callback data is not null; it returns FALSE in every case.
C19_DebugCallbackFilter ==
    Returned("vk_debug_callback") =>
        LET sev  == fn_arg.message_severity
            type == fn_arg.message_type
            data == fn_arg.p_callback_data
            out  == fn_ret.val
        IN  /\ out.ret = VK_FALSE
            /\ out.written = <<>> <=>
                   (sev \in {{VERBOSE}, {INFO}} /\ type = {GENERAL})
            /\ out.written # <<>> =>
                   /\ out.written[1].line = "header"
                   /\ out.written[1].severity = sev
                   /\ out.written[1].type = type
                   /\ Len(out.written) = IF data.null THEN 1 ELSE 2
                   /\ ~data.null => out.written[2].text = data.p_message.text

\* An INFO event of type GENERAL | VALIDATION with a message is written.
C19_Witness ==
    /\ Returned("vk_debug_callback")
    /\ fn_arg.message_severity = {INFO}
    /\ fn_arg.message_type = {GENERAL, VALIDATION}
    /\ ~fn_arg.p_callback_data.null
    /\ Len(fn_ret.val.written) = 2

-----------------------------------------------------------------------------
\* C20: during selection the swapchain-parameter queries
\* (surface_capabilities, surface_formats, surface_present_modes) are issued
\* for a device only after supports_surface has returned true for some queue
\* family of that same device.
C20_SwapchainQueriesAfterSupport ==
    \A k \in 1..Len(calls) :
        calls[k].call \in {"get_physical_device_surface_capabilities",
                           "get_physical_device_surface_formats",
                           "get_physical_device_surface_present_modes"} =>
            \E j \in 1..(k - 1) :
                /\ calls[j].call = "get_physical_device_surface_support"
                /\ calls[j].res = "true"
                /\ calls[j].arg[1] = calls[k].arg[1]

-----------------------------------------------------------------------------
\* The creation steps that are given an existing chain.
FallibleSteps ==
    {"create_debug_utils_messenger", "create_surface", "enumerate_physical_devices",
     "create_device", "create_swapchain"}

\* C21: if a creation step fails (DebugUtils::new, Surface::new,
\* PhysicalDevList::list, PhysicalDevList::select, Swapchain::new), no destroy
\* call is made for the object whose creation failed, every native object
\* created earlier in the chain is destroyed exactly once in reverse creation
\* order before the error reaches the caller, and the native creation call is
\* issued exactly once.
C21_FailedCreationTeardown ==
    \A k \in 1..Len(calls) :
        (calls[k].call \in FallibleSteps /\ calls[k].res = "err") =>
            /\ pc \in {"dropping", "done"}
            /\ \A l \in (k + 1)..Len(calls) : IsDestroy(calls[l])
            /\ calls[k].call \in CreateCalls =>
                   Count(Destroyed(calls), ObjectOf(calls[k].call)) = 0
            /\ IsPrefix(Destroyed(calls), Reverse(Created(calls)))
            /\ pc = "done" => Destroyed(calls) = Reverse(Created(calls))
            /\ Count(Names(calls), calls[k].call) = 1

\* Swapchain::new failed on the full chain, and the chain is gone.
C21_Witness ==
    /\ pc = "done"
    /\ \E k \in 1..Len(calls) :
           calls[k].call = "create_swapchain" /\ calls[k].res = "err"
    /\ Created(calls) = <<"instance", "messenger", "surface", "device">>
    /\ Destroyed(calls) = <<"device", "surface", "messenger", "instance">>

-----------------------------------------------------------------------------
\* C22: every plan VulkanState::create passes to select
\* (queue_family_creation_infos of the VkCreateInfo accepted for the selected
\* device) is non-empty, has pairwise distinct family indices, and has every
\* index below the number of queue families that device reports; select's
\* debug assertions never fail on this path: no panic follows the selection.
C22_PlanValid ==
    /\ pc = "main_75" =>
           LET plan == queue_family_creation_infos(create_info.val.info)
               dev  == devices[create_info.val.dev_idx + 1]
           IN  /\ create_info.val.dev_idx < Len(devices)
               /\ plan # <<>>
               /\ \A i, j \in 1..Len(plan) : i # j => plan[i].index # plan[j].index
               /\ \A i \in 1..Len(plan) : plan[i].index < Len(dev.queue_families)
    /\ result = "panic" => create_info.tag = "None"

\* With debug assertions on, select went through with a plan of two families.
C22_Witness ==
    /\ debug_assertions
    /\ \E k \in 1..Len(calls) :
           /\ calls[k].call = "create_device"
           /\ calls[k].res = "ok"
           /\ calls[k].plan = <<0, 1>>

-----------------------------------------------------------------------------
\* C23: whenever get_swapchain_properties returns Some, the extent meets what
\* Swapchain::new asks of it: width and height are both non-zero and each
\* lies between the reported min_image_extent and max_image_extent,
\* inclusive.
C23_ExtentPreconditions ==
    (Returned("get_swapchain_properties") /\ fn_ret.tag = "Some") =>
        LET caps == fn_arg.dev.surface_capabilities.val
            ext  == fn_ret.val.swapchain_extent
        IN  /\ ext.width # 0
            /\ ext.height # 0
            /\ caps.min_image_extent.width <= ext.width
            /\ ext.width <= caps.max_image_extent.width
            /\ caps.min_image_extent.height <= ext.height
            /\ ext.height <= caps.max_image_extent.height

-----------------------------------------------------------------------------
\* C24: whenever get_swapchain_properties returns Some, the image count meets
\* what Swapchain::new asks of it: it is greater than or equal to the
\* reported min_image_count, and less than or equal to the reported
\* max_image_count whenever max_image_count is not zero.
C24_ImageCountPreconditions ==
    (Returned("get_swapchain_properties") /\ fn_ret.tag = "Some") =>
        LET caps == fn_arg.dev.surface_capabilities.val
            imgs == fn_ret.val.swapchain_imgs
        IN  /\ imgs >= caps.min_image_count
            /\ caps.max_image_count # 0 => imgs <= caps.max_image_count

-----------------------------------------------------------------------------
\* C25: get_swapchain_properties is total: for every combination of reported
\* capabilities (min_image_extent above max_image_extent in some dimension
\* and min_image_count = u32::MAX included), formats, present modes and
\* window size it returns Some or None, without a panic and without an
\* arithmetic overflow.
C25_SwapchainPropertiesTotal ==
    Returned("get_swapchain_properties") =>
        /\ fn_ret.tag \in {"Some", "None"}
        /\ fn_ret.tag = "Some" =>
               fn_arg.dev.surface_capabilities.val.min_image_count + 1 <= U32_MAX

-----------------------------------------------------------------------------
\* C26: in get_queue_family_indices a queue family whose supports_surface
\* query returns an error counts as not supporting presentation and the
\* search goes on with the next family, so a later family that reports
\* support is still chosen as present_queue_id; supports_surface is called
\* only with indices below the length of the device's queue-family list.
C26_SupportErrorIsFalse ==
    Returned("get_queue_family_indices") =>
        LET fams  == fn_arg.dev.queue_families
            trace == get_queue_family_indices_calls(0, fn_arg.dev)
            sup   == {i \in 1..Len(fams) :
                         /\ fams[i].surface_support.tag = "Ok"
                         /\ fams[i].surface_support.val}
        IN  /\ (GraphicsFamilies(fn_arg.dev) # {} /\ sup # {}) =>
                   /\ fn_ret.tag = "Some"
                   /\ fn_ret.val.present_queue_id = SetMin(sup) - 1
            /\ sup = {} => fn_ret.tag = "None"
            /\ \A k \in 1..Len(trace) :
                   trace[k].call = "get_physical_device_surface_support" =>
                       /\ trace[k].arg[2] < Len(fams)
                       /\ trace[k].res = "err" =>
                              fams[trace[k].arg[2] + 1].surface_support.tag = "Err"

\* The query failed for family 0 and family 1, which supports the surface,
\* was chosen.
C26_Witness ==
    /\ Returned("get_queue_family_indices")
    /\ Len(fn_arg.dev.queue_families) >= 2
    /\ fn_arg.dev.queue_families[1].surface_support.tag = "Err"
    /\ fn_arg.dev.queue_families[2].surface_support.tag = "Ok"
    /\ fn_arg.dev.queue_families[2].surface_support.val
    /\ fn_ret.tag = "Some"
    /\ fn_ret.val.present_queue_id = 1

====
